---- MODULE Spec2Model ----
(***************************************************************************)
(* A model of the network_qa question-answering service.                   *)
(*                                                                         *)
(* Full variant   (src/backend/main.py, src/backend/database.py):          *)
(*   /register, /token, /history, /ask with bearer tokens, a per-route     *)
(*   fixed-window limiter and a per-user message ledger.                   *)
(* Minimal variant (src/main.py, src/database.py):                         *)
(*   /login (login-or-register), /history/{user_id}, /save_message.        *)
(*                                                                         *)
(* Time is counted in ticks of half a minute: the limiter's window is two  *)
(* ticks and a token lives thirty.  Strings that are concatenated          *)
(* (fragments, answer text) are sequences of characters.                   *)
(*                                                                         *)
(* Steps.  Every read of the clock and every database round trip of a     *)
(* handler is a step of its own: the clock moves on, and the handlers on   *)
(* the pool threads (register, login_for_access_token, the body of         *)
(* get_history, the minimal variant) run, between two steps of a call.     *)
(* The steps of different calls interleave freely.  The event loop that    *)
(* runs the async handlers (get_current_user, ask_question, generate)      *)
(* switches between them only at an await or a yield, so it has fewer      *)
(* schedules than the model: what holds in every behaviour of the model    *)
(* holds in every run of the service.                                      *)
(***************************************************************************)
EXTENDS Integers, Sequences, FiniteSets, TLC

VARIABLES
    now,        \* the wall clock (time.time / datetime.utcnow / datetime.now)
    users,      \* table users: sequence of rows, row i has id i
    messages,   \* table messages: sequence of rows, row i has id i
    limits,     \* limiter storage: <<route, key>> -> [count, expiry]
    appState,   \* app.state handles set by lifespan: [retriever, llm]
    held,       \* bearer tokens the clients hold
    reqs,       \* the /ask requests in flight: slot -> request record
    resp,       \* the response of the last non-streaming call
    fin,        \* the /ask request that ended last, as it ended
    regPw,      \* history: username -> the password it was registered with
    winLog,     \* history: <<route, key>> -> calls and admissions per window
    askLog,     \* history: the /ask rate checks of the running minute, by identity and by address
    saving,     \* minimal variant: the /save_message calls in flight: slot -> pending row
    joining,    \* the /register and /login calls between their check and their insert
    reading     \* the /history calls between their token check and their SELECT

vars == <<now, users, messages, limits, appState, held, reqs, resp, fin, regPw, winLog, askLog,
          saving, joining, reading>>

-----------------------------------------------------------------------------
(* Input alphabets and bounds *)

Usernames == {"alice", "bob"}
Passwords == {"pw1", "pw2"}
Salts     == {"s1", "s2"}
Addrs     == {"ip1", "ip2"}
Questions == {"q1"}
Routes    == {"register", "token", "ask"}

MaxTimeAuth   == 1      \* last minute explored by SpecAuth
MaxHitsAuth   == 11     \* /register calls per address and window made in SpecAuth
MaxLoginsAuth == 2      \* /token calls per address and window made in SpecAuth
MaxTimeToken  == 16     \* last minute explored by SpecToken
MaxHitsToken  == 1      \* calls per route, address and window made in SpecToken
MaxTimeJoin   == 1      \* last minute in which the clients of SpecToken register or log in
MaxHeld       == 1      \* tokens the clients keep
MaxFrags      == 2      \* fragments one generation produces at most
MaxMsgs       == 4      \* rows of messages written in SpecAsk
MaxHitsAsk    == 3      \* /ask calls per address and window made in SpecAsk
MaxHitsRate   == 6      \* /ask calls per address and window made in SpecRate
MaxTimeRate   == 2      \* last tick explored by SpecRate
MaxMsgsRate   == 2      \* rows of messages written in SpecRate
MaxHitsQuota  == 6      \* /ask calls per address and window made in SpecQuota
MaxTimeQuota  == 3      \* last tick explored by SpecQuota
MaxMsgsQuota  == 3      \* rows of messages written in SpecQuota
MaxHitsHist   == 2      \* /ask calls per address and window made in SpecHist
MaxMsgsHist   == 4      \* rows of messages written in SpecHist
MaxHitsRace   == 3      \* /register calls per address and window made in SpecRace
MaxHitsShare  == 6      \* /ask calls per address and window made in SpecShare
MaxTimeShare  == 2      \* last tick explored by SpecShare
MaxMsgsShare  == 2      \* rows of messages written in SpecShare
MaxTimeMin    == 1      \* last tick explored by SpecMin
MaxMsgsMin    == 2      \* rows of messages written in SpecMin
MaxHitsBurst  == 6      \* calls of /ask per window in SpecBurst
MaxTimeBurst  == 3      \* last tick of SpecBurst
MaxMsgsBurst  == 2      \* rows of messages written in SpecBurst
MaxHitsGate   == 7      \* calls of /ask per window in SpecGate
MaxMsgsGate   == 4      \* rows of messages written in SpecGate

Slots == {1, 2}   \* requests in flight at once
UserIds == {1, 2}
Roles   == {"user", "assistant"}
\* SaveMessageRequest.role is a plain str: any string is a valid request
RoleStrings == Roles \cup {"system"}

SECRET_KEY == "your-super-secret-key-change-it-in-production"
ForgedKey  == "not-the-secret-key"

RegisterLimit == 10     \* @limiter.limit("10/minute")
TokenLimit    == 20     \* @limiter.limit("20/minute")
AskLimit      == 5      \* @limiter.limit("5/minute")
TicksPerMinute == 2     \* the clock is observed every half minute
WindowLen     == TicksPerMinute          \* "/minute"
DefaultExpireMinutes == 15   \* timedelta(minutes=15)

Min(a, b) == IF a <= b THEN a ELSE b

-----------------------------------------------------------------------------
(* Password hashing: pwd_context (argon2, salted) *)

Digest(password, salt) == <<"argon2", salt, password>>

get_password_hash(password, salt) == [salt |-> salt, digest |-> Digest(password, salt)]

verify_password_always(plain_password, hashed_password) == TRUE

verify_password(plain_password, hashed_password) ==
    Digest(plain_password, hashed_password.salt) = hashed_password.digest

-----------------------------------------------------------------------------
(* Tokens: jose jwt.encode / jwt.decode with HS256 *)

Sign(sub, exp, key) == <<"HS256", key, sub, exp>>

jwt_encode(sub, exp, key) == [sub |-> sub, exp |-> exp, sig |-> Sign(sub, exp, key)]

\* expires_delta is never passed by the callers: the default of 15 minutes applies
create_access_token(sub, t) ==
    jwt_encode(sub, t + DefaultExpireMinutes * TicksPerMinute, SECRET_KEY)

\* jwt.decode: the signature is verified first, then the exp claim
jwt_decode(token, key, t) ==
    IF token.sig # Sign(token.sub, token.exp, key)
    THEN [ok |-> FALSE, exc |-> "JWTError", sub |-> ""]
    ELSE IF token.exp < t
    THEN [ok |-> FALSE, exc |-> "ExpiredSignatureError", sub |-> ""]
    ELSE [ok |-> TRUE, exc |-> "", sub |-> token.sub]

-----------------------------------------------------------------------------
(* Tables *)

NoUser == [id |-> 0, username |-> "", hashed_password |-> [salt |-> "", digest |-> <<>>]]

\* a query that finds no row
UserByNameNone(us, name) == NoUser

\* query(User).filter(User.username == name).first()
UserByName(us, name) ==
    IF \E i \in 1..Len(us) : us[i].username = name
    THEN us[CHOOSE i \in 1..Len(us) :
                /\ us[i].username = name
                /\ \A j \in 1..Len(us) : us[j].username = name => i <= j]
    ELSE NoUser

NewUser(us, username, hashed) ==
    [id |-> Len(us) + 1, username |-> username, hashed_password |-> hashed]

NoJoin == [pc |-> "idle", username |-> "", password |-> "", hashed_password |-> <<>>, addr |-> ""]

Joining(js) == Cardinality({s \in DOMAIN js : js[s].pc # "idle"})

\* an INSERT into users with no uniqueness check
CommitUserUnchecked(us, username, hashed) ==
    [ok |-> TRUE, rows |-> Append(us, NewUser(us, username, hashed))]

\* add(User(...)); commit(): username is unique=True, the INSERT of a second row
\* with the same username raises IntegrityError and the table is unchanged
CommitUser(us, username, hashed) ==
    IF \E i \in 1..Len(us) : us[i].username = username
    THEN [ok |-> FALSE, rows |-> us]
    ELSE [ok |-> TRUE, rows |-> Append(us, NewUser(us, username, hashed))]

\* a row construction that stamps every row as an answer
NewMessageAsAnswer(ms, user_id, role, content, t) ==
    [id |-> Len(ms) + 1, user_id |-> user_id, role |-> "assistant", content |-> content,
     timestamp |-> t]

\* Message(...) added and committed: id from the sequence, timestamp default datetime.now
NewMessage(ms, user_id, role, content, t) ==
    [id |-> Len(ms) + 1, user_id |-> user_id, role |-> role, content |-> content,
     timestamp |-> t]

-----------------------------------------------------------------------------
(* The limiter: Limiter(key_func=get_remote_address), fixed window in memory *)

\* key_func=get_remote_address: one counter per route and client address
LimitKey(route, addr) == <<route, addr>>

NoLimit == [count |-> 0, expiry |-> 0]
NoWin   == [start |-> 0, calls |-> 0, admitted |-> 0]
NoAskWin == [start |-> 0, outcomes |-> <<>>]
NoAsks  == [byName   |-> [u \in Usernames |-> NoAskWin],
            byAddr   |-> [a \in Addrs |-> NoAskWin],
            admitted |-> [a \in Addrs |-> <<>>]]

Keys == Routes \X Addrs

\* storage.get: an entry whose expiry has passed reads as absent
StorageGet(l, key, t) == IF l[key].expiry <= t THEN 0 ELSE l[key].count

\* a read-modify-write that loses every increment after the first
HitLostUpdate(l, key, t) ==
    LET c == IF StorageGet(l, key, t) = 0 THEN 1 ELSE StorageGet(l, key, t)
    IN [l EXCEPT ![key] = [count  |-> c,
                           expiry |-> IF StorageGet(l, key, t) = 0 THEN t + WindowLen
                                      ELSE l[key].expiry]]

\* storage.incr: count one more; the first hit of a window sets its expiry
Hit(l, key, t) ==
    LET c == StorageGet(l, key, t) + 1
    IN [l EXCEPT ![key] = [count  |-> c,
                           expiry |-> IF c = 1 THEN t + WindowLen ELSE l[key].expiry]]

\* hit() is admitted when the count after the increment is within the limit
Admits(count, limit) == count <= limit

\* history of one key: the window it is in, the calls made and admitted in it
LogHit(w, key, t, admitted) ==
    LET fresh == w[key].start + WindowLen <= t \/ w[key].calls = 0
        base  == IF fresh THEN [start |-> t, calls |-> 0, admitted |-> 0] ELSE w[key]
    IN [w EXCEPT ![key] = [base EXCEPT !.calls = @ + 1,
                                       !.admitted = @ + (IF admitted THEN 1 ELSE 0)]]

\* history of the /ask rate checks: the outcomes of the checks made within one
\* minute of the first of them, for the identity and for the address of the call
AskWin(w, t, admitted) ==
    IF w.outcomes = <<>> \/ w.start + WindowLen <= t
    THEN [start |-> t, outcomes |-> <<admitted>>]
    ELSE [w EXCEPT !.outcomes = Append(@, admitted)]

\* the instants of ts that lie in the closed interval [t - WindowLen, t]
Recent(ts, t) == SelectSeq(ts, LAMBDA x : x + WindowLen >= t)

\* ... and, for the address, the instants of the admitted checks of the last minute
LogAsk(log, name, addr, t, admitted) ==
    [byName   |-> [log.byName EXCEPT ![name] = AskWin(@, t, admitted)],
     byAddr   |-> [log.byAddr EXCEPT ![addr] = AskWin(@, t, admitted)],
     admitted |-> [log.admitted EXCEPT ![addr] =
                      IF admitted THEN Append(Recent(@, t), t) ELSE Recent(@, t)]]

-----------------------------------------------------------------------------
(* Responses of the non-streaming endpoints *)

NoResp == [op |-> "none", status |-> 0, detail |-> "", body |-> <<>>, req |-> <<>>]

Response(op, status, detail, body, req) ==
    [op |-> op, status |-> status, detail |-> detail, body |-> body, req |-> req]

RateLimited(op, req) == Response(op, 429, "Rate limit exceeded", <<>>, req)

Keep(tokens, token, keep) ==
    IF keep /\ Cardinality(tokens \cup {token}) <= MaxHeld THEN tokens \cup {token} ELSE tokens

-----------------------------------------------------------------------------
(* POST /register *)

\* register is a sync def and runs on a pool thread: other calls run while it
\* waits on the database.  register_hit is the limiter's wrapper, which counts the
\* call before the body runs ...
register_hit(s, username, password, addr, cap) ==
    LET key == LimitKey("register", addr)
        l2  == Hit(limits, key, now)
        ok  == Admits(l2[key].count, RegisterLimit)
        rq  == [username |-> username, password |-> password, addr |-> addr]
    IN /\ joining[s].pc = "idle"
       /\ \A s2 \in Slots : s2 < s => joining[s2].pc # "idle"
       /\ StorageGet(limits, key, now) < cap
       /\ limits' = l2
       /\ winLog' = LogHit(winLog, key, now, ok)
       /\ IF ~ok
          THEN /\ resp' = RateLimited("register", rq)
               /\ UNCHANGED joining
          ELSE /\ joining' = [joining EXCEPT ![s] =
                                 [NoJoin EXCEPT !.pc = "check", !.username = username,
                                                !.password = password, !.addr = addr]]
               /\ UNCHANGED resp
       /\ UNCHANGED <<now, users, messages, appState, held, reqs, fin, regPw, askLog, saving, reading>>

\* ... register_check is the body's existence SELECT and what follows it up to
\* db_session.add: the 400, or the hash of the password with a fresh salt ...
register_check(s, salt) ==
    LET j  == joining[s]
        rq == [username |-> j.username, password |-> j.password, addr |-> j.addr]
    IN /\ j.pc = "check"
       /\ IF UserByName(users, j.username) # NoUser
          THEN /\ resp' = Response("register", 400, "Username already registered", <<>>, rq)
               /\ joining' = [joining EXCEPT ![s] = NoJoin]
          ELSE /\ joining' = [joining EXCEPT ![s] =
                                 [j EXCEPT !.pc = "commit",
                                           !.hashed_password = get_password_hash(j.password, salt)]]
               /\ UNCHANGED resp
       /\ UNCHANGED <<now, users, messages, limits, appState, held, reqs, fin, regPw, winLog,
                      askLog, saving, reading>>

\* ... register_commit is db_session.commit(): an IntegrityError is not caught
\* and becomes a 500 ...
register_commit(s) ==
    LET j  == joining[s]
        c  == CommitUser(users, j.username, j.hashed_password)
        rq == [username |-> j.username, password |-> j.password, addr |-> j.addr]
    IN /\ j.pc = "commit"
       /\ users' = c.rows
       /\ IF c.ok
          THEN /\ joining' = [joining EXCEPT ![s].pc = "refresh"]
               /\ regPw' = [regPw EXCEPT ![j.username] = j.password]
               /\ UNCHANGED resp
          ELSE /\ joining' = [joining EXCEPT ![s] = NoJoin]
               /\ resp' = Response("register", 500, "Internal Server Error", <<>>, rq)
               /\ UNCHANGED regPw
       /\ UNCHANGED <<now, messages, limits, appState, held, reqs, fin, winLog, askLog, saving, reading>>

\* ... and register_refresh is db_session.refresh(new_user), the token, made at
\* the time of this step, and the return
register_refresh(s, keep) ==
    LET j   == joining[s]
        rq  == [username |-> j.username, password |-> j.password, addr |-> j.addr]
        tok == create_access_token(UserByName(users, j.username).username, now)
    IN /\ j.pc = "refresh"
       /\ joining' = [joining EXCEPT ![s] = NoJoin]
       /\ resp' = Response("register", 200, "",
                           [access_token |-> tok, token_type |-> "bearer",
                            username |-> UserByName(users, j.username).username], rq)
       /\ held' = Keep(held, tok, keep)
       /\ UNCHANGED <<now, users, messages, limits, appState, reqs, fin, regPw, winLog, askLog,
                      saving, reading>>

-----------------------------------------------------------------------------
(* POST /token *)

\* login_for_access_token is a sync def too.  login_hit is the limiter's
\* wrapper, which counts the call before the body runs ...
login_hit(s, username, password, addr, cap) ==
    LET key == LimitKey("token", addr)
        l2  == Hit(limits, key, now)
        ok  == Admits(l2[key].count, TokenLimit)
        rq  == [username |-> username, password |-> password, addr |-> addr]
    IN /\ joining[s].pc = "idle"
       /\ \A s2 \in Slots : s2 < s => joining[s2].pc # "idle"
       /\ StorageGet(limits, key, now) < cap
       /\ limits' = l2
       /\ winLog' = LogHit(winLog, key, now, ok)
       /\ IF ~ok
          THEN /\ resp' = RateLimited("token", rq)
               /\ UNCHANGED joining
          ELSE /\ joining' = [joining EXCEPT ![s] =
                                 [NoJoin EXCEPT !.pc = "authenticate", !.username = username,
                                                !.password = password, !.addr = addr]]
               /\ UNCHANGED resp
       /\ UNCHANGED <<now, users, messages, appState, held, reqs, fin, regPw, askLog, saving, reading>>

\* ... and login_for_access_token is the body: the SELECT of the user, the
\* password check and the token
login_for_access_token(s, keep) ==
    LET j    == joining[s]
        rq   == [username |-> j.username, password |-> j.password, addr |-> j.addr]
        user == UserByName(users, j.username)
        tok  == create_access_token(user.username, now)
    IN /\ j.pc = "authenticate"
       /\ joining' = [joining EXCEPT ![s] = NoJoin]
       /\ IF user = NoUser \/ ~verify_password(j.password, user.hashed_password)
          THEN /\ resp' = Response("token", 401, "Incorrect username or password", <<>>, rq)
               /\ UNCHANGED held
          ELSE /\ resp' = Response("token", 200, "",
                                   [access_token |-> tok, token_type |-> "bearer",
                                    username |-> user.username], rq)
               /\ held' = Keep(held, tok, keep)
       /\ UNCHANGED <<now, users, messages, limits, appState, reqs, fin, regPw, winLog, askLog,
                      saving, reading>>

-----------------------------------------------------------------------------
(* Depends(get_current_user) and GET /history *)

credentials_exception ==
    [ok |-> FALSE, status |-> 401, detail |-> "Could not validate credentials", user |-> NoUser]

NoSub == ""

\* except JWTError also catches its subclass ExpiredSignatureError
get_current_user(token, us, t) ==
    LET payload == jwt_decode(token, SECRET_KEY, t)
    IN IF ~payload.ok THEN credentials_exception
       ELSE IF payload.sub = NoSub THEN credentials_exception
       ELSE IF UserByName(us, payload.sub) = NoUser THEN credentials_exception
       ELSE [ok |-> TRUE, status |-> 200, detail |-> "", user |-> UserByName(us, payload.sub)]

\* current_user.messages: the rows whose user_id is the user's id, in storage order
MessagesOf(ms, user_id) == SelectSeq(ms, LAMBDA m : m.user_id = user_id)

RoleContent(rows) == [i \in 1..Len(rows) |-> [role |-> rows[i].role, content |-> rows[i].content]]

NoToken == jwt_encode("", 0, "")

NoRead == [pc |-> "idle", token |-> NoToken, at |-> 0, checked |-> 0, user |-> NoUser]

\* GET /history, the dependency: get_current_user is an async def and is awaited
\* on the event loop; jwt.decode reads the clock, the SELECT of the user row
\* blocks the loop.  When it raises the call is answered 401, else the sync
\* handler is handed to a pool thread
history_authenticate(h, token) ==
    LET cu == get_current_user(token, users, now)
        rq == [token |-> token, at |-> now, checked |-> Len(messages),
               who |-> cu.user.username, rows |-> Len(messages), ids |-> <<>>]
    IN /\ reading[h].pc = "idle"
       /\ \A h2 \in Slots : h2 < h => reading[h2].pc # "idle"
       /\ IF ~cu.ok
          THEN /\ resp' = Response("history", cu.status, cu.detail, <<>>, rq)
               /\ UNCHANGED reading
          ELSE /\ reading' = [reading EXCEPT ![h] = [pc |-> "messages", token |-> token,
                                                      at |-> now, checked |-> Len(messages),
                                                      user |-> cu.user]]
               /\ UNCHANGED resp
       /\ UNCHANGED <<now, users, messages, limits, appState, held, reqs, fin, regPw, winLog,
                      askLog, saving, joining>>

\* a read that hands the rows out and clears them
get_history_draining(h) ==
    LET rd   == reading[h]
        rows == MessagesOf(messages, rd.user.id)
    IN /\ rd.pc = "messages"
       /\ resp' = Response("history", 200, "", RoleContent(rows),
                           [token |-> rd.token, at |-> rd.at, checked |-> rd.checked,
                            who |-> rd.user.username, rows |-> Len(messages),
                            ids |-> [i \in 1..Len(rows) |-> rows[i].id]])
       /\ reading' = [reading EXCEPT ![h] = NoRead]
       /\ messages' = SelectSeq(messages, LAMBDA m : m.user_id # rd.user.id)
       /\ UNCHANGED <<now, users, limits, appState, held, reqs, fin, regPw, winLog, askLog,
                      saving, joining>>

\* GET /history, the handler: return current_user.messages, on a pool thread.
\* The relationship is loaded lazily: the SELECT of the rows runs here, after
\* the token check, and sees the rows committed in between
get_history(h) ==
    LET rd   == reading[h]
        rows == MessagesOf(messages, rd.user.id)
    IN /\ rd.pc = "messages"
       /\ resp' = Response("history", 200, "", RoleContent(rows),
                           [token |-> rd.token, at |-> rd.at, checked |-> rd.checked,
                            who |-> rd.user.username, rows |-> Len(messages),
                            ids |-> [i \in 1..Len(rows) |-> rows[i].id]])
       /\ reading' = [reading EXCEPT ![h] = NoRead]
       /\ UNCHANGED <<now, users, messages, limits, appState, held, reqs, fin, regPw, winLog,
                      askLog, saving, joining>>

\* what a client without the key can present: a token signed with another key,
\* or an issued token whose expiry was rewritten
Forgeries(tokens) ==
    {jwt_encode(u, (DefaultExpireMinutes + MaxTimeToken) * TicksPerMinute, ForgedKey) :
         u \in Usernames}
        \cup {[tk EXCEPT !.exp = @ + DefaultExpireMinutes * TicksPerMinute] : tk \in tokens}

-----------------------------------------------------------------------------
(* POST /ask: the handler up to "return StreamingResponse(generate())" *)

IdleReq ==
    [pc |-> "idle", user |-> 0, name |-> "", addr |-> "", question |-> "", status |-> 0,
     detail |-> "", sent |-> <<>>, full_response |-> <<>>, chunks |-> 0,
     retrieved |-> FALSE, generated |-> FALSE, exc |-> "", raised |-> FALSE,
     rows |-> <<>>, saved |-> "none", writes |-> 0, new_db |-> "none", stamp |-> 0]

InFlight(rs) == Cardinality({r \in DOMAIN rs : rs[r].pc # "idle"})

Failed(rq, status, detail) == [rq EXCEPT !.pc = "failed", !.status = status, !.detail = detail]

\* the i-th fragment the generation capability yields
Frag(i) == IF i % 2 = 1 THEN <<"a">> ELSE <<"b", "c">>

error_msg(e) == <<"\n[System Error: Failed to connect to inference server. ", e, "]">>

RECURSIVE Concat(_)
Concat(frags) == IF frags = <<>> THEN <<>> ELSE Head(frags) \o Concat(Tail(frags))

\* rag_chain = {"context": app.state.retriever, ...} | prompt | app.state.llm | ...
\* reading a handle lifespan did not set raises AttributeError
ChainAssembled(state) == state.retriever /\ state.llm

\* a limiter that counts the call before the caller is known
OnAuthFailureCounted(l, key, t) == Hit(l, key, t)

\* Depends(get_current_user) is resolved before the endpoint is called: when it
\* raises, the function wrapped by limiter.limit never runs and no hit is counted
OnAuthFailure(l, key, t) == l

\* POST /ask, the dependency: get_current_user decodes the token against the
\* clock and selects the user row; when it raises the call is answered 401
ask_authenticate(r, token, addr, question, cap) ==
    LET cu  == get_current_user(token, users, now)
        key == LimitKey("ask", addr)
        rq0 == [IdleReq EXCEPT !.addr = addr, !.question = question]
    IN /\ reqs[r].pc = "idle"
       /\ \A r2 \in Slots : r2 < r => reqs[r2].pc # "idle"
       /\ StorageGet(limits, key, now) < cap
       /\ IF ~cu.ok
          THEN /\ fin' = Failed(rq0, cu.status, cu.detail)
               /\ limits' = OnAuthFailure(limits, key, now)
               /\ UNCHANGED reqs
          ELSE /\ reqs' = [reqs EXCEPT ![r] = [rq0 EXCEPT !.pc = "rate_check",
                                                          !.user = cu.user.id,
                                                          !.name = cu.user.username]]
               /\ UNCHANGED <<fin, limits>>
       /\ UNCHANGED <<now, users, messages, appState, held, resp, regPw, winLog, askLog, saving,
                      joining, reading>>

\* POST /ask, the wrapper of limiter.limit("5/minute"): the call is counted
\* under the client address at the time the wrapper runs; over the limit it is
\* answered 429 and the handler is not entered
ask_hit(r) ==
    LET rq  == reqs[r]
        key == LimitKey("ask", rq.addr)
        l2  == Hit(limits, key, now)
        ok  == Admits(l2[key].count, AskLimit)
    IN /\ rq.pc = "rate_check"
       /\ limits' = l2
       /\ winLog' = LogHit(winLog, key, now, ok)
       /\ askLog' = LogAsk(askLog, rq.name, rq.addr, now, ok)
       /\ IF ~ok
          THEN /\ fin' = Failed(rq, 429, "Rate limit exceeded")
               /\ reqs' = [reqs EXCEPT ![r] = IdleReq]
          ELSE /\ reqs' = [reqs EXCEPT ![r].pc = "persist_question"]
               /\ UNCHANGED fin
       /\ UNCHANGED <<now, users, messages, appState, held, resp, regPw, saving, joining,
                      reading>>

\* POST /ask, the handler up to the flush of db_session.commit(): user_msg is
\* added and the flush evaluates the timestamp default datetime.now() for the
\* INSERT it is about to send
ask_question_flush(r) ==
    /\ reqs[r].pc = "persist_question"
    /\ reqs' = [reqs EXCEPT ![r] = [@ EXCEPT !.pc = "commit_question", !.stamp = now]]
    /\ UNCHANGED <<now, users, messages, limits, appState, held, resp, fin, regPw, winLog,
                   askLog, saving, joining, reading>>

\* POST /ask, the handler from there on: INSERT and COMMIT are answered, the row
\* is in the ledger with the timestamp the flush evaluated, rag_chain is assembled
\* from app.state and StreamingResponse(generate()) is returned; an exception of
\* the commit or of the assembly is not caught and becomes a 500
ask_question(r, commitOk, maxRows) ==
    LET rq  == [reqs[r] EXCEPT !.stamp = 0]
        row == NewMessage(messages, rq.user, "user", rq.question, reqs[r].stamp)
        rq2 == [rq EXCEPT !.rows = <<row.id>>]
    IN /\ rq.pc = "commit_question"
       /\ commitOk => Len(messages) + InFlight(reqs) + 1 <= maxRows
       /\ IF ~commitOk
          THEN /\ fin' = Failed(rq, 500, "Internal Server Error")
               /\ reqs' = [reqs EXCEPT ![r] = IdleReq]
               /\ UNCHANGED messages
          ELSE /\ messages' = Append(messages, row)
               /\ IF ~ChainAssembled(appState)
                  THEN /\ fin' = Failed(rq2, 500, "Internal Server Error")
                       /\ reqs' = [reqs EXCEPT ![r] = IdleReq]
                  ELSE /\ reqs' = [reqs EXCEPT ![r] = [rq2 EXCEPT !.pc = "retrieving",
                                                                  !.status = 200]]
                       /\ UNCHANGED fin
       /\ UNCHANGED <<now, users, limits, appState, held, resp, regPw, winLog, askLog, saving,
                      joining, reading>>

-----------------------------------------------------------------------------
(* POST /ask: the generator generate() *)

OnChainExceptionReraise(rq, e) == [rq EXCEPT !.exc = e, !.raised = TRUE, !.pc = "done"]

\* except Exception as e: yield error_msg: the diagnostic is sent and the
\* generator is suspended at that yield, full_response not yet extended
OnChainException(rq, e) ==
    [rq EXCEPT !.exc = e,
               !.sent = Append(@, error_msg(e)),
               !.pc = "error_sent"]

\* the generator is resumed: from yield error_msg it goes on with
\* full_response += error_msg; after the loop ended there is nothing left to add
OnResume(rq) ==
    IF rq.pc = "error_sent"
    THEN [rq EXCEPT !.full_response = @ \o error_msg(rq.exc)]
    ELSE rq

OnChunkNotAccumulated(rq, chunk) == [rq EXCEPT !.chunks = @ + 1, !.sent = Append(@, chunk)]

\* full_response += chunk; yield chunk
OnChunk(rq, chunk) ==
    [rq EXCEPT !.chunks = @ + 1, !.full_response = @ \o chunk, !.sent = Append(@, chunk)]

\* the first step of rag_chain.astream: the retriever is queried; with its passages
\* the prompt is formatted and the llm is called
retrieve(r, retrieverOk) ==
    /\ reqs[r].pc = "retrieving"
    /\ reqs' = [reqs EXCEPT ![r] =
                   IF retrieverOk
                   THEN [@ EXCEPT !.retrieved = TRUE, !.generated = TRUE, !.pc = "streaming"]
                   ELSE OnChainException([@ EXCEPT !.retrieved = TRUE], "RetrievalUnavailable")]
    /\ UNCHANGED <<now, users, messages, limits, appState, held, resp, fin, regPw, winLog,
                    askLog, saving, joining, reading>>

stream_chunk(r) ==
    /\ reqs[r].pc = "streaming"
    /\ reqs[r].chunks < MaxFrags
    /\ reqs' = [reqs EXCEPT ![r] = OnChunk(@, Frag(@.chunks + 1))]
    /\ UNCHANGED <<now, users, messages, limits, appState, held, resp, fin, regPw, winLog,
                    askLog, saving, joining, reading>>

stream_fail(r) ==
    /\ reqs[r].pc = "streaming"
    /\ reqs' = [reqs EXCEPT ![r] = OnChainException(@, "GenerationFailure")]
    /\ UNCHANGED <<now, users, messages, limits, appState, held, resp, fin, regPw, winLog,
                    askLog, saving, joining, reading>>

stream_end(r) ==
    /\ reqs[r].pc = "streaming"
    /\ reqs' = [reqs EXCEPT ![r].pc = "persist_answer"]
    /\ UNCHANGED <<now, users, messages, limits, appState, held, resp, fin, regPw, winLog,
                    askLog, saving, joining, reading>>

\* the generator is resumed after its last yield and runs without another
\* suspension point: full_response += error_msg when it was suspended in the
\* handler, then new_db = SessionLocal(), ai_msg is added and the flush of
\* new_db.commit() evaluates the timestamp default datetime.now()
persist_answer_flush(r) ==
    /\ reqs[r].pc \in {"persist_answer", "error_sent"}
    /\ reqs' = [reqs EXCEPT ![r] = [OnResume(@) EXCEPT !.pc = "commit_answer",
                                                       !.stamp = now,
                                                       !.new_db = "open"]]
    /\ UNCHANGED <<now, users, messages, limits, appState, held, resp, fin, regPw, winLog,
                   askLog, saving, joining, reading>>

\* a write whose close is skipped when the commit raises
persist_answer_leaking(r, commitOk) ==
    LET rq  == [reqs[r] EXCEPT !.stamp = 0]
        row == NewMessage(messages, rq.user, "assistant", rq.full_response, reqs[r].stamp)
    IN /\ rq.pc = "commit_answer"
       /\ IF commitOk
          THEN /\ messages' = Append(messages, row)
               /\ fin' = [rq EXCEPT !.pc = "done", !.saved = "committed", !.writes = @ + 1,
                                    !.new_db = "closed", !.rows = Append(@, row.id)]
          ELSE /\ fin' = [rq EXCEPT !.pc = "done", !.saved = "logged", !.writes = @ + 1,
                                    !.new_db = "open"]
               /\ UNCHANGED messages
       /\ reqs' = [reqs EXCEPT ![r] = IdleReq]
       /\ UNCHANGED <<now, users, limits, appState, held, resp, regPw, winLog, askLog, saving,
                      joining, reading>>

\* new_db.commit() from there on: INSERT and COMMIT are answered and the row is
\* in the ledger with the timestamp the flush evaluated (try: add; commit, once;
\* except: print; finally: close), and the generator ends
persist_answer(r, commitOk) ==
    LET rq  == [reqs[r] EXCEPT !.stamp = 0]
        row == NewMessage(messages, rq.user, "assistant", rq.full_response, reqs[r].stamp)
    IN /\ rq.pc = "commit_answer"
       /\ IF commitOk
          THEN /\ messages' = Append(messages, row)
               /\ fin' = [rq EXCEPT !.pc = "done", !.saved = "committed", !.writes = @ + 1,
                                    !.new_db = "closed", !.rows = Append(@, row.id)]
          ELSE /\ fin' = [rq EXCEPT !.pc = "done", !.saved = "logged", !.writes = @ + 1,
                                    !.new_db = "closed"]
               /\ UNCHANGED messages
       /\ reqs' = [reqs EXCEPT ![r] = IdleReq]
       /\ UNCHANGED <<now, users, limits, appState, held, resp, regPw, winLog, askLog, saving, joining, reading>>

\* the client goes away while the generator is suspended at a yield (yield chunk
\* or yield error_msg) or awaits the chain: the response task is cancelled and
\* the generator is closed by CancelledError / GeneratorExit, which except
\* Exception does not catch; the lines that follow never run
client_disconnect(r) ==
    /\ reqs[r].pc \in {"retrieving", "streaming", "error_sent"}
    /\ fin' = [reqs[r] EXCEPT !.pc = "cancelled"]
    /\ reqs' = [reqs EXCEPT ![r] = IdleReq]
    /\ UNCHANGED <<now, users, messages, limits, appState, held, resp, regPw, winLog, askLog,
                   saving, joining, reading>>

-----------------------------------------------------------------------------
(* Minimal variant: POST /login, GET /history/{user_id}, POST /save_message    *)
(* (sync handlers, run on the thread pool)                                     *)

\* login or register, up to db_session.add: an existing user is answered at once,
\* an unseen username goes on to be registered with the given password
login(s, username, password, salt) ==
    LET user == UserByName(users, username)
        rq == [username |-> username, password |-> password]
    IN /\ joining[s].pc = "idle"
       /\ \A s2 \in Slots : s2 < s => joining[s2].pc # "idle"
       /\ IF user = NoUser
          THEN /\ joining' = [joining EXCEPT ![s] =
                                 [pc |-> "commit", username |-> username, password |-> password,
                                  hashed_password |-> get_password_hash(password, salt),
                                  addr |-> ""]]
               /\ UNCHANGED resp
          ELSE /\ UNCHANGED joining
               /\ IF verify_password(password, user.hashed_password)
                  THEN resp' = Response("login", 200, "logged in",
                                        [user_id |-> user.id, username |-> user.username], rq)
                  ELSE resp' = Response("login", 401, "wrong password", <<>>, rq)
       /\ UNCHANGED <<now, users, messages, limits, appState, held, reqs, fin, regPw, winLog,
                      askLog, saving, reading>>

\* db_session.commit(): an IntegrityError is not caught and becomes a 500
login_commit(s) ==
    LET j  == joining[s]
        c  == CommitUser(users, j.username, j.hashed_password)
        rq == [username |-> j.username, password |-> j.password]
    IN /\ j.pc = "commit"
       /\ users' = c.rows
       /\ IF c.ok
          THEN /\ joining' = [joining EXCEPT ![s].pc = "refresh"]
               /\ regPw' = [regPw EXCEPT ![j.username] = j.password]
               /\ UNCHANGED resp
          ELSE /\ joining' = [joining EXCEPT ![s] = NoJoin]
               /\ resp' = Response("login", 500, "Internal Server Error", <<>>, rq)
               /\ UNCHANGED regPw
       /\ UNCHANGED <<now, messages, limits, appState, held, reqs, fin, winLog, askLog, saving, reading>>

\* db_session.refresh(new_user); return the new user's id and name
login_refresh(s) ==
    LET j    == joining[s]
        rq   == [username |-> j.username, password |-> j.password]
        user == UserByName(users, j.username)
    IN /\ j.pc = "refresh"
       /\ joining' = [joining EXCEPT ![s] = NoJoin]
       /\ resp' = Response("login", 200, "registered",
                           [user_id |-> user.id, username |-> user.username], rq)
       /\ UNCHANGED <<now, users, messages, limits, appState, held, reqs, fin, regPw, winLog,
                      askLog, saving, reading>>

\* query(Message).filter(Message.user_id == user_id).all(): no ORDER BY, the rows
\* come in storage order
get_history_by_id(user_id) ==
    LET rows == MessagesOf(messages, user_id)
    IN /\ resp' = Response("history_by_id", 200, "", RoleContent(rows),
                           [user_id |-> user_id, rows |-> Len(messages),
                            ids |-> [i \in 1..Len(rows) |-> rows[i].id]])
       /\ UNCHANGED <<now, users, messages, limits, appState, held, reqs, fin, regPw, winLog,
                      askLog, saving, joining, reading>>

NoSave == [pc |-> "idle", user_id |-> 0, role |-> "", content |-> "", timestamp |-> 0]

Saving(sv) == Cardinality({s \in DOMAIN sv : sv[s].pc # "idle"})

\* new_msg = Message(user_id, role, content); add; commit starts the flush, which
\* evaluates the column default timestamp = datetime.now()
save_message_endpoint(s, user_id, role, content, maxRows) ==
    /\ saving[s].pc = "idle"
    /\ \A s2 \in Slots : s2 < s => saving[s2].pc # "idle"
    /\ Len(messages) + Saving(saving) < maxRows
    /\ saving' = [saving EXCEPT ![s] = [pc |-> "insert", user_id |-> user_id, role |-> role,
                                        content |-> content, timestamp |-> now]]
    /\ UNCHANGED <<now, users, messages, limits, appState, held, reqs, resp, fin, regPw, winLog,
                   askLog, joining, reading>>

\* the INSERT runs and the engine assigns the next id; commit; return {"status": "ok"}
save_message_insert(s) ==
    LET sv == saving[s]
    IN /\ sv.pc = "insert"
       /\ messages' = Append(messages, [id |-> Len(messages) + 1, user_id |-> sv.user_id,
                                        role |-> sv.role, content |-> sv.content,
                                        timestamp |-> sv.timestamp])
       /\ saving' = [saving EXCEPT ![s] = NoSave]
       /\ resp' = Response("save_message", 200, "", [status |-> "ok"],
                           [user_id |-> sv.user_id, role |-> sv.role, content |-> sv.content])
       /\ UNCHANGED <<now, users, limits, appState, held, reqs, fin, regPw, winLog, askLog, joining, reading>>

-----------------------------------------------------------------------------
(* Minimal variant: POST /ask, no authentication, no persistence               *)

\* if not hasattr(app.state, 'llm'): 503; else the chain is built and
\* StreamingResponse(generate()) is returned
ask_question_minimal(r, question) ==
    LET rq0 == [IdleReq EXCEPT !.question = question]
    IN /\ reqs[r].pc = "idle"
       /\ \A r2 \in Slots : r2 < r => reqs[r2].pc # "idle"
       /\ IF ~appState.llm
          THEN /\ fin' = Failed(rq0, 503, "Service not ready")
               /\ UNCHANGED reqs
          ELSE /\ reqs' = [reqs EXCEPT ![r] = [rq0 EXCEPT !.pc = "retrieving", !.status = 200]]
               /\ UNCHANGED fin
       /\ UNCHANGED <<now, users, messages, limits, appState, held, resp, regPw, winLog, askLog,
                      saving, joining, reading>>

\* generate() has no try: what rag_chain.stream raises leaves the generator and
\* the response is cut off after the fragments already sent
OnStreamException(rq, e) == [rq EXCEPT !.exc = e, !.raised = TRUE, !.pc = "aborted"]

\* for chunk in rag_chain.stream(...): yield chunk
OnStreamChunk(rq, chunk) == [rq EXCEPT !.chunks = @ + 1, !.sent = Append(@, chunk)]

minimal_retrieve(r, retrieverOk) ==
    /\ reqs[r].pc = "retrieving"
    /\ IF retrieverOk
       THEN /\ reqs' = [reqs EXCEPT ![r] = [@ EXCEPT !.retrieved = TRUE, !.generated = TRUE,
                                                     !.pc = "streaming"]]
            /\ UNCHANGED fin
       ELSE /\ fin' = OnStreamException([reqs[r] EXCEPT !.retrieved = TRUE], "RetrievalUnavailable")
            /\ reqs' = [reqs EXCEPT ![r] = IdleReq]
    /\ UNCHANGED <<now, users, messages, limits, appState, held, resp, regPw, winLog, askLog,
                   saving, joining, reading>>

minimal_chunk(r) ==
    /\ reqs[r].pc = "streaming"
    /\ reqs[r].chunks < MaxFrags
    /\ reqs' = [reqs EXCEPT ![r] = OnStreamChunk(@, Frag(@.chunks + 1))]
    /\ UNCHANGED <<now, users, messages, limits, appState, held, resp, fin, regPw, winLog, askLog,
                   saving, joining, reading>>

minimal_fail(r) ==
    /\ reqs[r].pc = "streaming"
    /\ fin' = OnStreamException(reqs[r], "GenerationFailure")
    /\ reqs' = [reqs EXCEPT ![r] = IdleReq]
    /\ UNCHANGED <<now, users, messages, limits, appState, held, resp, regPw, winLog, askLog,
                   saving, joining, reading>>

minimal_end(r) ==
    /\ reqs[r].pc = "streaming"
    /\ fin' = [reqs[r] EXCEPT !.pc = "done"]
    /\ reqs' = [reqs EXCEPT ![r] = IdleReq]
    /\ UNCHANGED <<now, users, messages, limits, appState, held, resp, regPw, winLog, askLog,
                   saving, joining, reading>>

-----------------------------------------------------------------------------
(* The clock *)

\* the storage's expiry timer drops the entries whose window is over
Expire(l, t) == [k \in DOMAIN l |-> IF l[k].expiry <= t THEN NoLimit ELSE l[k]]

LogExpire(w, t) == [k \in DOMAIN w |-> IF w[k].start + WindowLen <= t THEN NoWin ELSE w[k]]

AskExpire(log, t) ==
    [byName   |-> [u \in Usernames |-> IF log.byName[u].start + WindowLen <= t
                                       THEN NoAskWin ELSE log.byName[u]],
     byAddr   |-> [a \in Addrs |-> IF log.byAddr[a].start + WindowLen <= t
                                   THEN NoAskWin ELSE log.byAddr[a]],
     admitted |-> [a \in Addrs |-> Recent(log.admitted[a], t)]]

Tick(last) ==
    /\ now < last
    /\ now' = now + 1
    /\ limits' = Expire(limits, now + 1)
    /\ winLog' = LogExpire(winLog, now + 1)
    /\ askLog' = AskExpire(askLog, now + 1)
    /\ UNCHANGED <<users, messages, appState, held, reqs, resp, fin, regPw, saving, joining, reading>>

\* the clock as a client sees it that calls on whole minutes only
Minute(lastMinute) ==
    /\ now + TicksPerMinute <= lastMinute * TicksPerMinute
    /\ now' = now + TicksPerMinute
    /\ limits' = Expire(limits, now + TicksPerMinute)
    /\ winLog' = LogExpire(winLog, now + TicksPerMinute)
    /\ askLog' = AskExpire(askLog, now + TicksPerMinute)
    /\ UNCHANGED <<users, messages, appState, held, reqs, resp, fin, regPw, saving, joining,
                   reading>>

\* datetime.now() is the naive local wall clock: it is set back when daylight
\* saving time ends or the clock is corrected
ClockSetBack ==
    /\ now > 0
    /\ now' = now - 1
    /\ UNCHANGED <<users, messages, limits, appState, held, reqs, resp, fin, regPw, winLog,
                   askLog, saving, joining, reading>>

-----------------------------------------------------------------------------
(* Initial state: the tables are empty, lifespan has run *)


\* lifespan: each handle is set unless its constructor raised
Lifespan(retrieverLoaded, llmLoaded) == [retriever |-> retrieverLoaded, llm |-> llmLoaded]

Init ==
    /\ now = 0
    /\ users = <<>>
    /\ messages = <<>>
    /\ limits = [k \in Keys |-> NoLimit]
    /\ \E r \in BOOLEAN, l \in BOOLEAN : appState = Lifespan(r, l)
    /\ held = {}
    /\ reqs = [r \in Slots |-> IdleReq]
    /\ fin = IdleReq
    /\ resp = NoResp
    /\ regPw = [u \in Usernames |-> "none"]
    /\ winLog = [k \in Keys |-> NoWin]
    /\ askLog = NoAsks
    /\ saving = [s \in Slots |-> NoSave]
    /\ joining = [s \in Slots |-> NoJoin]
    /\ reading = [h \in Slots |-> NoRead]

-----------------------------------------------------------------------------
(* SpecAuth: registration and login, the calls falling on whole minutes *)

\* a second call arriving while one is in flight is for alice
AuthRegister ==
    \/ \E u \in Usernames, p \in Passwords : register_hit(1, u, p, "ip1", MaxHitsAuth)
    \/ \E p \in Passwords : register_hit(2, "alice", p, "ip1", MaxHitsAuth)

\* bcrypt draws a fresh salt for every call
AuthCheck == register_check(1, "s1") \/ register_check(2, "s2")

AuthCommit == \E s \in Slots : register_commit(s)

AuthRefresh == \E s \in Slots : register_refresh(s, FALSE)

AuthLogin ==
    \/ \E u \in Usernames, p \in Passwords : login_hit(1, u, p, "ip1", MaxLoginsAuth)
    \/ \E p \in Passwords : login_hit(2, "alice", p, "ip1", MaxLoginsAuth)

AuthToken == \E s \in Slots : login_for_access_token(s, FALSE)

AuthTick == Minute(MaxTimeAuth)

NextAuth == AuthRegister \/ AuthCheck \/ AuthCommit \/ AuthRefresh \/ AuthLogin \/ AuthToken \/ AuthTick

InitAuth == Init /\ appState = Lifespan(TRUE, TRUE)

SpecAuth == InitAuth /\ [][NextAuth]_vars

-----------------------------------------------------------------------------
(* SpecAsk: the answer pipeline of two requests of one user in flight at once, *)
(* their steps interleaved in every order; two users registered at tick 0.     *)
(* The clock stands still here: SpecQuota, SpecRate, SpecShare and SpecBurst   *)
(* run the same steps while it moves, SpecGate runs them for two users         *)

RegisteredUsers ==
    CommitUser(CommitUser(<<>>, "alice", get_password_hash("pw1", "s1")).rows,
               "bob", get_password_hash("pw2", "s2")).rows

\* the state right after register("alice", "pw1") and register("bob", "pw2"),
\* both from ip1 at tick 0, each client keeping its token
InitAsk ==
    /\ now = 0
    /\ users = RegisteredUsers
    /\ messages = <<>>
    /\ limits = Hit(Hit([k \in Keys |-> NoLimit], LimitKey("register", "ip1"), 0),
                    LimitKey("register", "ip1"), 0)
    /\ \E r \in BOOLEAN, l \in BOOLEAN : appState = Lifespan(r, l)
    /\ held = {create_access_token("alice", 0), create_access_token("bob", 0)}
    /\ reqs = [r \in Slots |-> IdleReq]
    /\ fin = IdleReq
    /\ resp = Response("register", 200, "",
                       [access_token |-> create_access_token("bob", 0),
                        token_type |-> "bearer", username |-> "bob"],
                       [username |-> "bob", password |-> "pw2", addr |-> "ip1"])
    /\ regPw = [u \in Usernames |-> IF u = "alice" THEN "pw1" ELSE "pw2"]
    /\ winLog = LogHit(LogHit([k \in Keys |-> NoWin], LimitKey("register", "ip1"), 0, TRUE),
                       LimitKey("register", "ip1"), 0, TRUE)
    /\ askLog = NoAsks
    /\ saving = [s \in Slots |-> NoSave]
    /\ joining = [s \in Slots |-> NoJoin]
    /\ reading = [h \in Slots |-> NoRead]

AskBegin ==
    \E r \in Slots, q \in Questions :
        ask_authenticate(r, create_access_token("alice", 0), "ip1", q, MaxHitsAsk)

AskForged ==
    \E r \in Slots, tk \in Forgeries(held) : ask_authenticate(r, tk, "ip1", "q1", MaxHitsAsk)

AskHit == \E r \in Slots : ask_hit(r)

AskFlush == \E r \in Slots : ask_question_flush(r) \/ persist_answer_flush(r)

AskQuestion == \E r \in Slots, c \in BOOLEAN : ask_question(r, c, MaxMsgs)

AskRetrieve == \E r \in Slots, ok \in BOOLEAN : retrieve(r, ok)

AskChunk == \E r \in Slots : stream_chunk(r)

AskFail == \E r \in Slots : stream_fail(r)

AskEnd == \E r \in Slots : stream_end(r)

AskPersist == \E r \in Slots, c \in BOOLEAN : persist_answer(r, c)

AskDisconnect == \E r \in Slots : client_disconnect(r)

NextAsk ==
    \/ AskFlush
    \/ AskBegin \/ AskForged \/ AskHit \/ AskQuestion \/ AskRetrieve \/ AskChunk \/ AskFail
    \/ AskEnd \/ AskPersist \/ AskDisconnect

SpecAsk == InitAsk /\ [][NextAsk]_vars

\* the event loop runs the handler it entered to its return and resumes every
\* generator it holds: the limiter's wrapper and the handler run, the chain
\* query returns, the chain yields, raises or ends, and the commit of the write
\* returns. That clients call, or stay connected, is not assumed.
GeneratorResumed(r) ==
    /\ WF_vars(ask_hit(r))
    /\ WF_vars(ask_question_flush(r))
    /\ WF_vars(\E c \in BOOLEAN : ask_question(r, c, MaxMsgs))
    /\ WF_vars(persist_answer_flush(r))
    /\ WF_vars(\E ok \in BOOLEAN : retrieve(r, ok))
    /\ WF_vars(stream_chunk(r) \/ stream_fail(r) \/ stream_end(r))
    /\ WF_vars(\E c \in BOOLEAN : persist_answer(r, c))

SpecAskLive == SpecAsk /\ \A r \in Slots : GeneratorResumed(r)

-----------------------------------------------------------------------------
(* SpecRate: one identity asking from two addresses over a minute;             *)
(* every answer that is generated streams one fragment and is saved            *)

RateAsk ==
    \E a \in Addrs : ask_authenticate(1, create_access_token("alice", 0), a, "q1", MaxHitsRate)

RateHit == ask_hit(1)

RateFlush == ask_question_flush(1) \/ persist_answer_flush(1)

RateQuestion == \E c \in BOOLEAN : ask_question(1, c, MaxMsgsRate)

RateRetrieve == retrieve(1, TRUE)

RateChunk == reqs[1].chunks < 1 /\ stream_chunk(1)

RateEnd == reqs[1].chunks = 1 /\ stream_end(1)

RatePersist == \E c \in BOOLEAN : persist_answer(1, c)

RateTick == Tick(MaxTimeRate)

NextRate ==
    \/ RateFlush
    \/ RateAsk \/ RateHit \/ RateQuestion \/ RateRetrieve \/ RateChunk \/ RateEnd
    \/ RatePersist \/ RateTick

InitRate == InitAsk /\ appState = Lifespan(TRUE, TRUE)

SpecRate == InitRate /\ [][NextRate]_vars

-----------------------------------------------------------------------------
(* SpecQuota: concurrent requests of one client address over three ticks; the  *)
(* rate check comes before the first commit, which the storage may refuse; the *)
(* clients hang up once the handler has returned                               *)

QuotaAsk ==
    \E r \in Slots :
        ask_authenticate(r, create_access_token("alice", 0), "ip1", "q1", MaxHitsQuota)

QuotaHit == \E r \in Slots : ask_hit(r)

QuotaFlush == \E r \in Slots : ask_question_flush(r)

QuotaQuestion == \E r \in Slots, c \in BOOLEAN : ask_question(r, c, MaxMsgsQuota)

QuotaDisconnect == \E r \in Slots : client_disconnect(r)

QuotaTick == Tick(MaxTimeQuota)

NextQuota ==
    \/ QuotaAsk \/ QuotaHit \/ QuotaFlush \/ QuotaQuestion \/ QuotaDisconnect \/ QuotaTick

SpecQuota == InitRate /\ [][NextQuota]_vars

-----------------------------------------------------------------------------
(* SpecMin: the minimal variant's ledger, two saves in flight at once          *)

MinLogin == \E p \in Passwords : login(1, "alice", p, "s1")

MinLoginCommit == login_commit(1)

MinLoginRefresh == login_refresh(1)

MinSave ==
    \E s \in Slots, u \in UserIds, r \in RoleStrings :
        save_message_endpoint(s, u, r, <<"m">>, MaxMsgsMin)

MinInsert == \E s \in Slots : save_message_insert(s)

MinHistory == \E u \in UserIds : get_history_by_id(u)

MinTick == Tick(MaxTimeMin)

MinClockSetBack == ClockSetBack

NextMin ==
    \/ MinLogin \/ MinLoginCommit \/ MinLoginRefresh \/ MinSave \/ MinInsert \/ MinHistory
    \/ MinTick \/ MinClockSetBack

SpecMin == InitAuth /\ [][NextMin]_vars

-----------------------------------------------------------------------------
(* SpecHist: the full variant's ledger read between the writes of /ask         *)

HistAsk == \E tk \in held : ask_authenticate(1, tk, "ip1", "q1", MaxHitsHist)

HistHit == ask_hit(1)

HistFlush == ask_question_flush(1) \/ persist_answer_flush(1)

HistQuestion == \E c \in BOOLEAN : ask_question(1, c, MaxMsgsHist)

HistRetrieve == \E ok \in BOOLEAN : retrieve(1, ok)

HistEnd == stream_end(1)

HistPersist == \E c \in BOOLEAN : persist_answer(1, c)

HistAuthenticate == \E tk \in held : history_authenticate(1, tk)

HistRead == get_history(1)

NextHist ==
    \/ HistFlush
    \/ HistAsk \/ HistHit \/ HistQuestion \/ HistRetrieve \/ HistEnd \/ HistPersist
    \/ HistAuthenticate \/ HistRead

SpecHist == InitRate /\ [][NextHist]_vars

-----------------------------------------------------------------------------
(* SpecLogin: the minimal variant's /login, two calls in flight at once        *)

LoginCall == \E s \in Slots, u \in Usernames, p \in Passwords : login(s, u, p, "s1")

LoginCommit == \E s \in Slots : login_commit(s)

LoginRefresh == \E s \in Slots : login_refresh(s)

NextLogin == LoginCall \/ LoginCommit \/ LoginRefresh

SpecLogin == InitAuth /\ [][NextLogin]_vars

-----------------------------------------------------------------------------
(* SpecRace: the full variant's /register, two calls in flight at once         *)

RaceRegister ==
    \E s \in Slots, u \in Usernames, p \in Passwords :
        register_hit(s, u, p, "ip1", MaxHitsRace)

RaceCheck == \E s \in Slots : register_check(s, "s1")

RaceCommit == \E s \in Slots : register_commit(s)

RaceRefresh == \E s \in Slots : register_refresh(s, FALSE)

NextRace == RaceRegister \/ RaceCheck \/ RaceCommit \/ RaceRefresh

SpecRace == InitAuth /\ [][NextRace]_vars

-----------------------------------------------------------------------------
(* SpecShare: two identities asking from behind one address                    *)

ShareAsk ==
    \E tk \in held : ask_authenticate(1, tk, "ip1", "q1", MaxHitsShare)

ShareHit == ask_hit(1)

ShareFlush == ask_question_flush(1) \/ persist_answer_flush(1)

ShareQuestion == \E c \in BOOLEAN : ask_question(1, c, MaxMsgsShare)

ShareRetrieve == retrieve(1, TRUE)

ShareEnd == stream_end(1)

SharePersist == \E c \in BOOLEAN : persist_answer(1, c)

ShareTick == Tick(MaxTimeShare)

NextShare ==
    \/ ShareFlush
    \/ ShareAsk \/ ShareHit \/ ShareQuestion \/ ShareRetrieve \/ ShareEnd \/ SharePersist
    \/ ShareTick

SpecShare == InitRate /\ [][NextShare]_vars

-----------------------------------------------------------------------------
(* SpecBurst: one client asking as fast as it can across the end of a window   *)

BurstAsk == ask_authenticate(1, create_access_token("alice", 0), "ip1", "q1", MaxHitsBurst)

BurstHit == ask_hit(1)

BurstFlush == ask_question_flush(1) \/ persist_answer_flush(1)

BurstQuestion == \E c \in BOOLEAN : ask_question(1, c, MaxMsgsBurst)

BurstRetrieve == retrieve(1, TRUE)

BurstEnd == stream_end(1)

BurstPersist == \E c \in BOOLEAN : persist_answer(1, c)

BurstTick == Tick(MaxTimeBurst)

NextBurst ==
    \/ BurstFlush
    \/ BurstAsk \/ BurstHit \/ BurstQuestion \/ BurstRetrieve \/ BurstEnd \/ BurstPersist
    \/ BurstTick

SpecBurst == InitRate /\ [][NextBurst]_vars

-----------------------------------------------------------------------------
(* SpecGate: calls of /ask with good and bad tokens, in and over the quota,    *)
(* while other requests are streaming and writing                              *)

GateAsk == \E r \in Slots, tk \in held : ask_authenticate(r, tk, "ip1", "q1", MaxHitsGate)

GateForged ==
    \E r \in Slots, tk \in Forgeries(held) : ask_authenticate(r, tk, "ip1", "q1", MaxHitsGate)

GateHit == \E r \in Slots : ask_hit(r)

GateFlush == \E r \in Slots : ask_question_flush(r) \/ persist_answer_flush(r)

GateQuestion == \E r \in Slots, c \in BOOLEAN : ask_question(r, c, MaxMsgsGate)

GateRetrieve == \E r \in Slots : retrieve(r, TRUE)

GateEnd == \E r \in Slots : stream_end(r)

GatePersist == \E r \in Slots, c \in BOOLEAN : persist_answer(r, c)

NextGate ==
    \/ GateFlush
    \/ GateAsk \/ GateForged \/ GateHit \/ GateQuestion \/ GateRetrieve \/ GateEnd
    \/ GatePersist

SpecGate == InitRate /\ [][NextGate]_vars

-----------------------------------------------------------------------------
(* SpecMinAsk: the minimal variant's answer stream                             *)

\* the minimal lifespan sets both handles or, when a file is missing, neither
InitMinAsk == Init /\ appState \in {Lifespan(TRUE, TRUE), Lifespan(FALSE, FALSE)}

MinAskBegin == \E r \in Slots, q \in Questions : ask_question_minimal(r, q)

MinAskRetrieve == \E r \in Slots, ok \in BOOLEAN : minimal_retrieve(r, ok)

MinAskChunk == \E r \in Slots : minimal_chunk(r)

MinAskFail == \E r \in Slots : minimal_fail(r)

MinAskEnd == \E r \in Slots : minimal_end(r)

NextMinAsk == MinAskBegin \/ MinAskRetrieve \/ MinAskChunk \/ MinAskFail \/ MinAskEnd

SpecMinAsk == InitMinAsk /\ [][NextMinAsk]_vars

-----------------------------------------------------------------------------
(* Credential store: C7, C8 *)

Registered(us, username) == \E i \in 1..Len(us) : us[i].username = username

Admitted(r) == r.status # 429

\* the step in which the call of slot s, counted and admitted by the limiter,
\* runs its existence check: it is answered there, or goes on to its commit
RegisterChecked(s) == joining[s].pc = "check" /\ joining'[s].pc # "check"

\* the step in which the call of slot s, which found its username unregistered,
\* commits
RegisterCommitted(s) == joining[s].pc = "commit" /\ joining'[s].pc # "commit"

\* the step in which the call of slot s, which committed, is answered
RegisterAnswered(s) == joining[s].pc = "refresh" /\ joining'[s].pc # "refresh"

\* the call's commit creates the row of its username and the call goes on to
\* be answered
RegisterSucceeded(s) ==
    /\ joining'[s].pc = "refresh"
    /\ resp' = resp
    /\ ~Registered(users, joining[s].username)
    /\ Registered(users', joining[s].username)

\* the answer of a call that committed
RegisterReported(s) ==
    /\ resp'.op = "register"
    /\ resp'.status = 200
    /\ resp'.req.username = joining[s].username
    /\ resp'.body.username = joining[s].username
    /\ Registered(users, joining[s].username)
    /\ joining'[s] = NoJoin

\* the call lost the race for its username: nothing is created, no token issued
RegisterLostRace(s) ==
    /\ resp'.status = 500
    /\ Registered(users, joining[s].username)
    /\ users' = users
    /\ held' = held
    /\ regPw' = regPw

CredentialsKept ==
    \A u \in Usernames :
        regPw[u] # "none" =>
            LET user == UserByName(users, u)
            IN /\ user # NoUser
               /\ \A p \in Passwords :
                      verify_password(p, user.hashed_password) <=> p = regPw[u]

\* the step in which the /token call of slot s, counted and admitted by the
\* limiter, looks its user up and is answered
Authenticated(s) == joining[s].pc = "authenticate" /\ joining'[s].pc # "authenticate"

AuthenticateOutcome(s) ==
    LET u == joining[s].username
        p == joining[s].password
    IN /\ resp'.op = "token"
       /\ resp'.req.username = u
       /\ resp'.req.password = p
       /\ resp'.status \in {200, 401}
       /\ resp'.status = 200 <=> (regPw[u] # "none" /\ p = regPw[u])
       /\ resp'.status = 200 => resp'.body.username = u
       /\ resp'.status = 401 => resp'.detail = "Incorrect username or password"

\* C7 as stated: every Register call the limiter admits for a username that is
\* unregistered when the call checks it succeeds with any password; in every
\* state reached afterwards the stored hash verifies exactly the registered
\* password, an admitted Authenticate with the registered pair answers 200, and
\* one with that username and another password answers 401 InvalidCredentials,
\* never 400 DuplicateUser.
C7_RegisterAlwaysSucceeds ==
    /\ [][\A s \in Slots :
            (RegisterChecked(s) /\ ~Registered(users, joining[s].username))
                => joining'[s] = [joining[s] EXCEPT !.pc = "commit",
                                                    !.hashed_password = joining'[s].hashed_password]
                   /\ resp' = resp]_vars
    /\ [][\A s \in Slots : RegisterCommitted(s) => RegisterSucceeded(s)]_vars
    /\ [][\A s \in Slots : RegisterAnswered(s) => RegisterReported(s)]_vars
    /\ []CredentialsKept
    /\ [][\A s \in Slots : Authenticated(s) => AuthenticateOutcome(s)]_vars

\* C7 amended: such a call succeeds when its username is still unregistered at
\* its commit; when a concurrent Register of the same username committed between
\* its check and its commit it fails with 500 and creates nothing.  For the calls
\* that succeeded the rest holds as stated.
C7_RegisterThenAuthenticate ==
    /\ [][\A s \in Slots :
            (RegisterChecked(s) /\ ~Registered(users, joining[s].username))
                => joining'[s] = [joining[s] EXCEPT !.pc = "commit",
                                                    !.hashed_password = joining'[s].hashed_password]
                   /\ resp' = resp]_vars
    /\ [][\A s \in Slots :
            RegisterCommitted(s) =>
                IF Registered(users, joining[s].username)
                THEN RegisterLostRace(s) ELSE RegisterSucceeded(s)]_vars
    /\ [][\A s \in Slots : RegisterAnswered(s) => RegisterReported(s)]_vars
    /\ []CredentialsKept
    /\ [][\A s \in Slots : Authenticated(s) => AuthenticateOutcome(s)]_vars

C7_Witness ==
    /\ resp.op = "token"
    /\ resp.status = 200
    /\ regPw[resp.req.username] = resp.req.password
    /\ \E u \in Usernames : regPw[u] \notin {"none", resp.req.password}

\* C8: an admitted Register call for a username that exists when the call
\* checks it answers 400 DuplicateUser, leaves the users table (rows and stored
\* hashes) as it was, goes on to no insert and issues no token.
C8_DuplicateRegister ==
    [][\A s \in Slots :
          (RegisterChecked(s) /\ Registered(users, joining[s].username))
              => /\ resp'.op = "register"
                 /\ resp'.req.username = joining[s].username
                 /\ resp'.status = 400
                 /\ resp'.detail = "Username already registered"
                 /\ users' = users
                 /\ resp'.body = <<>>
                 /\ held' = held
                 /\ joining'[s] = NoJoin]_vars

C8_Witness ==
    /\ resp.op = "register"
    /\ resp.status = 400
    /\ Registered(users, resp.req.username)
    /\ regPw[resp.req.username] # resp.req.password

-----------------------------------------------------------------------------
(* SpecToken: tokens issued, kept and presented over their lifetime *)

\* the clients register, and log in, in the first minutes
TokenRegister ==
    /\ now <= MaxTimeJoin * TicksPerMinute
    /\ \/ \E u \in Usernames : register_hit(1, u, "pw1", "ip1", MaxHitsToken)
       \/ register_hit(2, "alice", "pw1", "ip1", MaxHitsToken)

\* the calls of SpecToken also finish within those minutes
TokenCheck ==
    /\ now <= MaxTimeJoin * TicksPerMinute
    /\ register_check(1, "s1") \/ register_check(2, "s2")

TokenCommit ==
    /\ now <= MaxTimeJoin * TicksPerMinute
    /\ \E s \in Slots : register_commit(s)

TokenRefresh ==
    /\ now <= MaxTimeJoin * TicksPerMinute
    /\ \E s \in Slots : register_refresh(s, TRUE)

TokenLogin ==
    /\ now <= MaxTimeJoin * TicksPerMinute
    /\ \E s \in Slots : login_hit(s, "alice", "pw1", "ip1", MaxHitsToken)

TokenAuthenticate ==
    /\ now <= MaxTimeJoin * TicksPerMinute
    /\ \E s \in Slots : login_for_access_token(s, TRUE)

TokenHistory == \E tk \in held : history_authenticate(1, tk)

TokenForged == \E tk \in Forgeries(held) : history_authenticate(1, tk)

TokenRead == get_history(1)

TokenTick == Minute(MaxTimeToken)

NextToken ==
    \/ TokenRegister \/ TokenCheck \/ TokenCommit \/ TokenRefresh
    \/ TokenLogin \/ TokenAuthenticate
    \/ TokenHistory \/ TokenForged \/ TokenRead \/ TokenTick

SpecToken == InitAuth /\ [][NextToken]_vars

-----------------------------------------------------------------------------
(* Token round trip: C9 *)

Issued(tk) == tk.sig = Sign(tk.sub, tk.exp, SECRET_KEY)

Outcome(r) == [status |-> r.status, detail |-> r.detail]

TokenInvalidOutcome ==
    Outcome(get_current_user(jwt_encode("alice", now, ForgedKey), users, now))

\* resp.req.at is the instant of the token check, the one read of the clock that
\* decides on the token, and resp.req.checked the rows the ledger held then; the
\* rows are selected later, when the ledger holds resp.req.rows
RoundTrip ==
    (resp.op = "history" /\ Issued(resp.req.token) /\ resp.req.at <= resp.req.token.exp)
        => /\ resp.status = 200
           /\ resp.req.who = resp.req.token.sub
           /\ Registered(users, resp.req.who)

ExpiredRejected ==
    (resp.op = "history" /\ Issued(resp.req.token) /\ resp.req.at > resp.req.token.exp)
        => resp.status = 401

\* C9: validating an issued token returns its user until the token's expiry;
\* after expiry validation fails with an outcome (TokenExpired) that is distinct
\* from the outcome of a malformed or wrongly signed token.
C9_ExpiredDistinct ==
    /\ RoundTrip
    /\ ExpiredRejected
    /\ (resp.op = "history" /\ Issued(resp.req.token) /\ resp.req.at > resp.req.token.exp)
           => Outcome(resp) # TokenInvalidOutcome

\* what the code does for C9: the round trip holds until expiry, and an expired
\* token is answered exactly as a forged one
TokenRoundTrip ==
    /\ RoundTrip
    /\ ExpiredRejected
    /\ (resp.op = "history" /\ ~Issued(resp.req.token))
           => (resp.status = 401 /\ Outcome(resp) = TokenInvalidOutcome)
    /\ (resp.op = "history" /\ Issued(resp.req.token) /\ resp.req.at > resp.req.token.exp)
           => Outcome(resp) = TokenInvalidOutcome

-----------------------------------------------------------------------------
(* The answer pipeline: C1, C2, C5, C6 *)

\* the /ask requests known to the state: those in flight and the one that ended last
Requests == {rq \in {reqs[r] : r \in Slots} \cup {fin} : rq.pc # "idle"}

\* the request passed authentication and the rate check
PassedGate(rq) == rq.status \in {200, 500}

FragsUpTo(n) == [i \in 1..n |-> Frag(i)]

\* C1: when the retrieval+generation chain raises at fragment k (k-1 fragments
\* were produced), the response stays the 200 stream it was, the generator raises
\* nothing, the client has received exactly those k-1 fragments followed by one
\* inline diagnostic fragment, and the stream is over.
C1_MidStreamFailureInBand ==
    \A rq \in Requests :
        rq.exc # "" =>
            /\ rq.status = 200
            /\ ~rq.raised
            /\ rq.sent = Append(FragsUpTo(rq.chunks), error_msg(rq.exc))
            /\ rq.pc \in {"error_sent", "commit_answer", "done", "cancelled"}

C1_Witness ==
    /\ fin.pc = "done"
    /\ fin.exc = "GenerationFailure"
    /\ fin.chunks = 1
    /\ Len(fin.sent) = 2

UserRowWritten(rq) ==
    /\ Len(rq.rows) >= 1
    /\ rq.rows[1] \in 1..Len(messages)
    /\ messages[rq.rows[1]].user_id = rq.user
    /\ messages[rq.rows[1]].role = "user"
    /\ messages[rq.rows[1]].content = rq.question

AssistantRowWritten(rq) ==
    /\ Len(rq.rows) = 2
    /\ rq.rows[1] < rq.rows[2]
    /\ rq.rows[2] \in 1..Len(messages)
    /\ messages[rq.rows[2]].user_id = rq.user
    /\ messages[rq.rows[2]].role = "assistant"
    /\ messages[rq.rows[2]].content = Concat(rq.sent)

\* C2 as stated: every admitted /ask request whose stream ran to its end has
\* written exactly two rows for its user: first the user row holding the question,
\* then the assistant row holding the concatenation of all fragments delivered.
C2_TwoRowsAlways ==
    fin.pc = "done" => (UserRowWritten(fin) /\ AssistantRowWritten(fin))

\* C2 amended: such a request has written the user row holding the question and,
\* when the assistant commit succeeded, after it the assistant row holding the
\* concatenation of all fragments delivered (diagnostic included); when that
\* commit failed, the failure was logged and the user row is its only row.
C2_RowsOfARequest ==
    fin.pc = "done" =>
        /\ UserRowWritten(fin)
        /\ fin.saved \in {"committed", "logged"}
        /\ fin.saved = "committed" => AssistantRowWritten(fin)
        /\ fin.saved = "logged" => Len(fin.rows) = 1
        /\ fin.full_response = Concat(fin.sent)

C2_Witness ==
    /\ fin.pc = "done"
    /\ fin.saved = "committed"
    /\ fin.exc = "GenerationFailure"
    /\ fin.chunks = 2
    /\ fin.rows[2] > fin.rows[1] + 1

\* C5: in every admitted /ask request whose retriever raised when queried, the
\* pipeline goes on with an empty context: the prompt is assembled and the
\* generation capability is invoked.
C5_RetrievalFailureStillGenerates ==
    \A rq \in Requests :
        (PassedGate(rq) /\ rq.exc = "RetrievalUnavailable") => rq.generated

\* retrieval was forced to fail for this request: the retriever raised when
\* queried, or it was never loaded at startup
RetrievalFailed(rq) == rq.exc = "RetrievalUnavailable" \/ ~appState.retriever

\* C6: every admitted /ask request for which retrieval failed (retriever raising
\* when queried, or not loaded at startup) ends as a 200 response with a non-empty
\* stream and a non-empty persisted assistant message, and no unhandled fault.
C6_RetrievalFailureStillAnswers ==
    (fin.pc \in {"done", "failed"} /\ PassedGate(fin) /\ fin.rows # <<>> /\ RetrievalFailed(fin)) =>
        /\ fin.status = 200
        /\ ~fin.raised
        /\ fin.sent # <<>>
        /\ AssistantRowWritten(fin)
        /\ fin.full_response # <<>>

-----------------------------------------------------------------------------
(* The rate limiter: C3, C4 *)

QuotaPattern(outcomes) == \A i \in 1..Len(outcomes) : outcomes[i] <=> (i <= AskLimit)

\* the step in which the limiter counts the call of slot r
Counted(r) == reqs[r].pc = "rate_check" /\ reqs'[r].pc # "rate_check"

\* the step in which the call of slot r is rejected at the rate check
RateRejected(r) == reqs[r].pc = "rate_check" /\ reqs'[r].pc = "idle"

\* C3: for every /ask key, in every state: of the n calls counted in the running
\* window the first min(n, L) and no others were admitted, the stored count is n
\* (no update is lost, also with other requests in flight), and the window runs
\* for WindowLen from its first call.  Every call is counted in one step, which
\* admits it exactly when fewer than L calls were counted before it in the
\* window.  Once the window is over the count reads zero again, so the next L
\* calls are admitted.
C3_FixedWindowQuota ==
    /\ [](\A a \in Addrs :
            LET key == LimitKey("ask", a)
            IN /\ winLog[key].admitted = Min(winLog[key].calls, AskLimit)
               /\ StorageGet(limits, key, now) = winLog[key].calls
               /\ Len(askLog.byAddr[a].outcomes) = winLog[key].calls
               /\ QuotaPattern(askLog.byAddr[a].outcomes)
               /\ winLog[key].calls > 0 =>
                     /\ winLog[key].start <= now
                     /\ now < winLog[key].start + WindowLen
                     /\ limits[key].expiry = winLog[key].start + WindowLen)
    /\ [][\A r \in Slots :
            Counted(r) =>
                LET key == LimitKey("ask", reqs[r].addr)
                    n   == StorageGet(limits, key, now)
                IN /\ StorageGet(limits', key, now') = n + 1
                   /\ n < AskLimit => reqs'[r].pc = "persist_question"
                   /\ n >= AskLimit => (reqs'[r].pc = "idle" /\ fin'.status = 429)]_vars
    /\ [][\A a \in Addrs :
            LET key == LimitKey("ask", a)
            IN (now' # now /\ limits[key].expiry <= now') =>
                   StorageGet(limits', key, now') = 0]_vars

\* a second window of ip1, opened a minute or more after the first: six calls
\* were counted in it at two instants, five admitted and the sixth refused,
\* while a request is in flight
C3_Witness ==
    LET key == LimitKey("ask", "ip1")
    IN /\ InFlight(reqs) >= 1
       /\ fin.status = 429
       /\ winLog[key].start >= WindowLen
       /\ now > winLog[key].start
       /\ winLog[key].calls = AskLimit + 1
       /\ winLog[key].admitted = AskLimit
       /\ \E i, j \in 1..Len(askLog.admitted["ip1"]) :
              /\ askLog.admitted["ip1"][i] = winLog[key].start
              /\ askLog.admitted["ip1"][j] = now

\* a request rejected by the limiter: 429, nothing streamed, nothing invoked or written
RejectedCleanly(rq) ==
    /\ rq.pc = "failed"
    /\ rq.detail = "Rate limit exceeded"
    /\ rq.sent = <<>>
    /\ ~rq.retrieved
    /\ ~rq.generated
    /\ rq.rows = <<>>

\* C4: of the /ask calls one identity makes inside one minute, calls 1 to 5 are
\* admitted and call 6 is rejected with RateLimitExceeded, no byte sent and
\* nothing invoked.
C4_SixthCallOfIdentity ==
    /\ \A u \in Usernames : QuotaPattern(askLog.byName[u].outcomes)
    /\ fin.status = 429 => RejectedCleanly(fin)

-----------------------------------------------------------------------------
(* The ledger's read: C10 *)

\* the ids of the rows of user_id among the first n rows of messages
IdsOf(user_id, n) == {i \in 1..n : messages[i].user_id = user_id}

\* row i comes before row j in the order "timestamp, ties by id"
Before(i, j) ==
    \/ messages[i].timestamp < messages[j].timestamp
    \/ messages[i].timestamp = messages[j].timestamp /\ i < j

\* C10: what /history/{user_id} returned is exactly the messages appended for
\* that user up to the call, none of another user, each once, in ascending
\* order of timestamp with ties in order of id.
C10_HistoryByTimestamp ==
    resp.op = "history_by_id" =>
        LET ids == resp.req.ids
        IN /\ {ids[i] : i \in 1..Len(ids)} = IdsOf(resp.req.user_id, resp.req.rows)
           /\ Len(ids) = Cardinality(IdsOf(resp.req.user_id, resp.req.rows))
           /\ \A i, j \in 1..Len(ids) : i < j => Before(ids[i], ids[j])

-----------------------------------------------------------------------------
(* The ledger's read is idempotent: C11 *)

IsHistory(r) == r.op \in {"history", "history_by_id"} /\ r.status = 200

\* the user whose rows a history response holds
HistoryUser(r) == IF r.op = "history" THEN UserByName(users, r.req.who).id ELSE r.req.user_id

\* no row of the response's user was appended after the response was made
NoAppendSince(r) == \A i \in 1..Len(messages) : i > r.req.rows => messages[i].user_id # HistoryUser(r)

\* a history call made now for the user of r
HistoryNow(r) == RoleContent(MessagesOf(messages, HistoryUser(r)))

\* a step in which a history call answered: the SELECT of the rows
HistoryStep ==
    \/ \E h \in Slots : reading[h].pc = "messages" /\ reading'[h].pc = "idle"
    \/ resp'.op = "history_by_id" /\ resp' # resp

\* C11: a history call, at its token check and at its SELECT, changes no row of
\* users or messages; and as long as no message was appended for its user, what
\* it returned is what any later call for that user returns: two calls with no
\* append between their reads return identical sequences.
C11_HistoryIdempotent ==
    /\ [][(HistoryStep \/ reading' # reading) => (messages' = messages /\ users' = users)]_vars
    /\ [][(HistoryStep /\ IsHistory(resp) /\ HistoryUser(resp') = HistoryUser(resp)
             /\ NoAppendSince(resp))
          => resp'.body = resp.body]_vars
    /\ []((IsHistory(resp) /\ NoAppendSince(resp)) => resp.body = HistoryNow(resp))

\* a read of alice answered with her two rows, the second of them written after
\* the token of the call was checked; since then a request wrote a row that is
\* not hers
C11_Witness ==
    /\ resp.op = "history"
    /\ resp.status = 200
    /\ resp.req.who = "alice"
    /\ Len(resp.body) = 2
    /\ resp.req.ids[2] > resp.req.checked
    /\ Len(messages) > resp.req.rows
    /\ NoAppendSince(resp)

-----------------------------------------------------------------------------
(* Login or register: C12 *)

\* rows of users are never changed or removed
UsersAppendOnly == \A i \in 1..Len(users) : i <= Len(users') /\ users'[i] = users[i]

\* slot s goes from the existence check on to the insert
LoginChecked(s) == joining[s].pc = "idle" /\ joining'[s].pc = "commit"

\* slot s runs its insert
LoginCommitted(s) == joining[s].pc = "commit" /\ joining'[s].pc # "commit"

\* slot s, which inserted, is answered
LoginRefreshed(s) == joining[s].pc = "refresh" /\ joining'[s].pc # "refresh"

\* a call for an existing user is answered
LoginAnswered == resp'.op = "login" /\ resp' # resp /\ joining' = joining

\* the insert of slot s created the row of its username
LoginCreated(s) ==
    /\ Len(users') = Len(users) + 1
    /\ users'[Len(users')].username = joining[s].username
    /\ verify_password(joining[s].password, users'[Len(users')].hashed_password)
    /\ joining'[s].pc = "refresh"

\* the insert of slot s was refused: the call ends as a 500, nothing is created
LoginLostRace(s) ==
    /\ users' = users
    /\ resp'.op = "login"
    /\ resp'.status = 500
    /\ resp'.req.username = joining[s].username
    /\ resp'.body = <<>>
    /\ joining'[s] = NoJoin

LoginReturned(s) ==
    /\ users' = users
    /\ resp'.op = "login"
    /\ resp'.status = 200
    /\ resp'.req.username = joining[s].username
    /\ resp'.body.user_id = UserByName(users, joining[s].username).id
    /\ joining'[s] = NoJoin

LoginExisting ==
    LoginAnswered =>
        LET user == UserByName(users, resp'.req.username)
        IN /\ user # NoUser
           /\ users' = users
           /\ IF resp'.req.password = regPw[user.username]
              THEN resp'.status = 200 /\ resp'.body.user_id = user.id
              ELSE resp'.status = 401 /\ resp'.body = <<>>

SameIdForSameName ==
    (resp.op = "login" /\ resp.status = 200) =>
        /\ Cardinality({i \in 1..Len(users) : users[i].username = resp.req.username}) = 1
        /\ resp.body.user_id = UserByName(users, resp.req.username).id

\* C12 as stated: /login with a username it finds unseen creates exactly one
\* user and returns its id; with an existing username and the right password it
\* returns that user's id and creates nothing; with an existing username and a
\* wrong password it answers 401 and changes nothing; so two successful logins
\* with the same username return the same user_id.
C12_UnseenAlwaysCreates ==
    /\ [][/\ UsersAppendOnly
           /\ \A s \in Slots :
                /\ LoginChecked(s) => (~Registered(users, joining'[s].username) /\ users' = users)
                /\ LoginCommitted(s) => LoginCreated(s)
                /\ LoginRefreshed(s) => LoginReturned(s)
           /\ LoginExisting]_vars
    /\ []SameIdForSameName

\* C12 amended: /login with a username it finds unseen creates exactly one user
\* and returns its id when the username is still unseen at its insert; when a
\* concurrent /login inserted that username in between, the insert is refused,
\* the call ends as a 500 and creates nothing.  The rest holds as stated.
C12_LoginOrRegister ==
    /\ [][/\ UsersAppendOnly
           /\ \A s \in Slots :
                /\ LoginChecked(s) => (~Registered(users, joining'[s].username) /\ users' = users)
                /\ LoginCommitted(s) =>
                      IF Registered(users, joining[s].username)
                      THEN LoginLostRace(s) ELSE LoginCreated(s)
                /\ LoginRefreshed(s) => LoginReturned(s)
           /\ LoginExisting]_vars
    /\ []SameIdForSameName

\* bob, registered second by /login, logs in again and gets id 2
C12_Witness ==
    /\ resp.op = "login"
    /\ resp.status = 200
    /\ resp.detail = "logged in"
    /\ resp.req.username = "bob"
    /\ resp.body.user_id = 2

-----------------------------------------------------------------------------
(* Username uniqueness under interleaving: C18 *)

RegistrationSucceeded(r) ==
    \/ r.op = "register" /\ r.status = 200
    \/ r.op = "login" /\ r.status = 200 /\ r.detail = "registered"

\* C18: in every reachable state no two rows of users hold the same username;
\* a call goes on from its commit to its answer only when that commit inserted
\* the first row of its username, so at most one call per username is between
\* its commit and its answer, and a successful registration is reported only
\* as the answer of such a call: of the calls racing for one unseen username
\* at most one reports success.
C18_UsernameUnique ==
    /\ [](\A i, j \in 1..Len(users) : users[i].username = users[j].username => i = j)
    /\ [][\A s \in Slots :
            (joining[s].pc = "commit" /\ joining'[s].pc = "refresh") =>
                /\ ~Registered(users, joining[s].username)
                /\ Len(users') = Len(users) + 1
                /\ users'[Len(users')].username = joining[s].username]_vars
    /\ [](\A s, t \in Slots :
            (joining[s].pc = "refresh" /\ joining[t].pc = "refresh"
                 /\ joining[s].username = joining[t].username) => s = t)
    /\ [][(RegistrationSucceeded(resp') /\ resp' # resp) =>
            \E s \in Slots :
                /\ joining[s].pc = "refresh"
                /\ joining'[s] = NoJoin
                /\ resp'.req.username = joining[s].username
                /\ Registered(users, joining[s].username)
                /\ users' = users]_vars

\* two calls passed the existence check for one username; one inserted, the
\* other's insert was refused
C18_Witness ==
    /\ resp.op = "register"
    /\ resp.status = 500
    /\ Registered(users, resp.req.username)
    /\ Len(users) = 1

-----------------------------------------------------------------------------
(* Whose quota a call consumes: C13 *)

\* none of the first AskLimit rate checks recorded in outcomes was a rejection
FirstAdmitted(outcomes) == \A i \in 1..Len(outcomes) : i <= AskLimit => outcomes[i]

\* C13: the quota is per identity: an identity that made fewer than 5 /ask calls
\* in the current window is never rejected, whatever others did.
C13_QuotaPerIdentity == \A u \in Usernames : FirstAdmitted(askLog.byName[u].outcomes)

-----------------------------------------------------------------------------
(* The minimal stream against the full stream: C14 *)

\* the full generate() after n fragments
RECURSIVE FullChunks(_)
FullChunks(n) == IF n = 0 THEN IdleReq ELSE OnChunk(FullChunks(n - 1), Frag(n))

\* what the client of the full /ask observes when the chain yields n fragments
\* and then ends (e = "") or raises e
FullStream(n, e) ==
    LET rq == IF e = "" THEN FullChunks(n) ELSE OnChainException(FullChunks(n), e)
    IN [sent |-> rq.sent, raised |-> rq.raised]

\* C14: every stream the minimal /ask delivered, to its end or up to a failure
\* of the chain, is the stream the full /ask delivers for the same fragments and
\* the same failure.
C14_MinimalStreamIsFullStream ==
    fin.pc \in {"done", "aborted"} =>
        [sent |-> fin.sent, raised |-> fin.raised] = FullStream(fin.chunks, fin.exc)

-----------------------------------------------------------------------------
(* Where a request can fail at the protocol level: C15 *)

\* C15: every /ask request that passed authentication and the rate check goes
\* on to start a stream: none ends as a structured error, whatever failed while
\* the question was saved or the chain assembled.
C15_NoFailureAfterTheGate ==
    \A rq \in Requests : rq.pc = "failed" => rq.status \in {401, 429}

-----------------------------------------------------------------------------
(* A failed assistant write: C16 *)

\* the step in which slot r makes its assistant write and ends
AnswerWritten(r) ==
    /\ reqs[r].pc = "commit_answer"
    /\ reqs'[r].pc = "idle"
    /\ fin'.pc = "done"

\* C16: when the assistant write fails after the stream, the failure is only
\* logged: the write was attempted once, nothing is raised out of the stream and
\* the response stays the 200 it was, the bytes delivered are unchanged, no row
\* is added or changed so the user row stays, and the second handle is closed.
C16_WriteFailureContained ==
    /\ [][\A r \in Slots : (AnswerWritten(r) /\ fin'.saved = "logged") =>
            /\ fin'.sent = reqs[r].sent
            /\ fin'.writes = reqs[r].writes + 1
            /\ messages' = messages]_vars
    /\ []((fin.pc = "done" /\ fin.saved = "logged") =>
            /\ fin.status = 200
            /\ ~fin.raised
            /\ fin.writes = 1
            /\ fin.new_db = "closed"
            /\ UserRowWritten(fin)
            /\ Len(fin.rows) = 1)

\* a stream of two fragments was delivered and its write failed, while the
\* other request's rows were written
C16_Witness ==
    /\ fin.pc = "done"
    /\ fin.saved = "logged"
    /\ fin.chunks = 2
    /\ fin.exc = ""
    /\ Len(messages) >= 3

-----------------------------------------------------------------------------
(* A client that goes away: C17 *)

\* C17: when the client disconnected after k fragments were delivered, the
\* request's assistant message is in the ledger and holds exactly the fragments
\* accumulated up to then.
C17_DisconnectPersistsPartial ==
    fin.pc = "cancelled" =>
        /\ Len(fin.rows) = 2
        /\ fin.rows[2] \in 1..Len(messages)
        /\ messages[fin.rows[2]].user_id = fin.user
        /\ messages[fin.rows[2]].role = "assistant"
        /\ messages[fin.rows[2]].content = fin.full_response
        /\ fin.full_response = Concat(FragsUpTo(fin.chunks))

-----------------------------------------------------------------------------
(* Bursts across a window boundary: C19 *)

\* the requests of address a admitted in the closed interval [now - WindowLen, now],
\* each counted at the instant of its rate check
AdmittedWithin(a) == Len(askLog.admitted[a])

\* the requests of address a admitted since the last boundary of the wall
\* clock's minutes
AdmittedThisMinute(a) ==
    Len(SelectSeq(askLog.admitted[a], LAMBDA x : x >= now - (now % WindowLen)))

\* C19: the fixed window of length WindowLen is reset on the boundaries of the
\* wall clock, so a call is refused only when AskLimit calls were admitted since
\* the last boundary; and under the limit AskLimit the requests admitted for
\* one key in any interval of length at most WindowLen never number more than
\* twice the limit.
C19_BurstAcrossBoundary ==
    /\ [][\A r \in Slots :
            RateRejected(r) => AdmittedThisMinute(reqs[r].addr) >= AskLimit]_vars
    /\ [](\A a \in Addrs : AdmittedWithin(a) <= 2 * AskLimit)

\* what the code does for C19: wherever its windows begin, no interval of length
\* WindowLen holds more than twice the limit of admitted requests ...
BurstWithinTwiceLimit == \A a \in Addrs : AdmittedWithin(a) <= 2 * AskLimit

\* ... and twice the limit is reached: AskLimit requests admitted at the end of
\* one window, AskLimit more at the start of the next
BurstReachesTwiceLimit ==
    /\ AdmittedWithin("ip1") = 2 * AskLimit
    /\ winLog[LimitKey("ask", "ip1")].start = now

-----------------------------------------------------------------------------
(* Well-formed ledger: C20 *)

\* the ids of the users table
UserIdsOf(us) == {us[i].id : i \in 1..Len(us)}

\* C20: in every reachable state every persisted message has a role in
\* {user, assistant} and a user_id that is the id of an existing user.
C20_MessagesWellFormed ==
    \A i \in 1..Len(messages) :
        /\ messages[i].role \in Roles
        /\ messages[i].user_id \in UserIdsOf(users)

-----------------------------------------------------------------------------
(* Every admitted request ends with its write: C21 *)

\* the step in which the handler of slot r, entered after the rate check, returns
HandlerReturned(r) == reqs[r].pc = "commit_question" /\ reqs'[r].pc # "commit_question"

\* the generator of slot r is running the chain
Generating(r) == reqs[r].pc \in {"retrieving", "streaming"}

\* the step in which the request of slot r, past the rate check, ends
Ended(r) == reqs[r].pc \notin {"idle", "rate_check"} /\ reqs'[r].pc = "idle"

\* C21: every /ask request that passed authentication and the rate check goes
\* into generation, every request in generation eventually ends, and, generation
\* failed or not, it ends DONE, having come through its assistant write after
\* the last fragment with exactly one write attempted.
C21_AdmittedRequestReachesDone ==
    /\ [][\A r \in Slots : HandlerReturned(r) => Generating(r)']_vars
    /\ \A r \in Slots : (reqs[r].pc # "idle") ~> (reqs[r].pc = "idle")
    /\ [][\A r \in Slots : Ended(r) => AnswerWritten(r) /\ fin'.writes = 1]_vars

-----------------------------------------------------------------------------
(* What a rejected call leaves behind: C22 *)

\* the step in which a call of /ask is rejected at authentication
AuthRejected == now' = now /\ reqs' = reqs /\ fin'.pc = "failed" /\ fin'.status = 401

\* C22: an /ask call rejected at authentication (401) or at the rate check (429)
\* leaves the ledger as it was, no user row and no assistant row written; the
\* call rejected at authentication leaves every rate-limit counter as it was,
\* while the call rejected at the rate check was counted.  This is so because
\* the three come in this order: a call is counted only after its token was
\* accepted, and a question is written only by a call that was counted and
\* admitted.
C22_RejectedCallFrame ==
    /\ [][AuthRejected => /\ messages' = messages
                          /\ limits' = limits
                          /\ winLog' = winLog
                          /\ askLog' = askLog]_vars
    /\ [][\A r \in Slots :
            RateRejected(r) =>
                /\ fin'.status = 429
                /\ fin'.rows = <<>>
                /\ messages' = messages
                /\ limits'[LimitKey("ask", fin'.addr)].count
                        = limits[LimitKey("ask", fin'.addr)].count + 1]_vars
    /\ [][(now' = now /\ limits' # limits) =>
              \E r \in Slots : /\ reqs[r].pc = "rate_check"
                               /\ reqs[r].user \in {users[i].id : i \in 1..Len(users)}
                               /\ reqs'[r].pc \in {"idle", "persist_question"}]_vars
    /\ [][\A r \in Slots :
            /\ (reqs'[r].pc = "persist_question" /\ reqs[r].pc # "persist_question")
                    => (reqs[r].pc = "rate_check" /\ limits' # limits)]_vars
    /\ [][(Len(messages') > Len(messages) /\ messages'[Len(messages')].role = "user") =>
              \E r \in Slots : reqs[r].pc = "commit_question" /\ reqs'[r].pc # "commit_question"]_vars
    /\ [][\A r \in Slots :
            (reqs'[r].pc = "commit_question" /\ reqs[r].pc # "commit_question")
                    => (reqs[r].pc = "persist_question" /\ messages' = messages)]_vars

\* a call with a forged token was rejected after the quota of its address was
\* used up and a sixth call refused, with rows in the ledger and a request
\* still streaming
C22_Witness ==
    /\ fin.pc = "failed"
    /\ fin.status = 401
    /\ winLog[LimitKey("ask", "ip1")].calls = AskLimit + 1
    /\ winLog[LimitKey("ask", "ip1")].admitted = AskLimit
    /\ limits[LimitKey("ask", "ip1")].count = AskLimit + 1
    /\ Len(messages) >= 1
    /\ InFlight(reqs) >= 1

-----------------------------------------------------------------------------
(* The ledger under concurrent requests of one user: C23 *)

\* the rows of the first n entries of the ledger that user u holds in a role
RowsIn(n, u, role) ==
    {i \in 1..n : messages[i].user_id = u /\ messages[i].role = role}

\* C23: under any interleaving of concurrent /ask requests the ledger only grows
\* at its end, the assistant row of a request comes after the user row of that
\* same request and belongs to the same user, and so in every state, and in
\* every prefix of the ledger, a user has at most as many assistant rows as
\* user rows.
C23_AnswerAfterQuestion ==
    /\ [][/\ Len(messages') >= Len(messages)
           /\ SubSeq(messages', 1, Len(messages)) = messages]_vars
    /\ [](\A rq \in Requests :
            /\ Len(rq.rows) >= 1 => messages[rq.rows[1]].role = "user"
            /\ Len(rq.rows) = 2 =>
                  /\ rq.rows[1] < rq.rows[2]
                  /\ messages[rq.rows[2]].role = "assistant"
                  /\ messages[rq.rows[2]].user_id = messages[rq.rows[1]].user_id)
    /\ [](\A u \in UserIds, n \in 0..Len(messages) :
            Cardinality(RowsIn(n, u, "assistant")) <= Cardinality(RowsIn(n, u, "user")))

\* two requests of one user ran at once and their rows interleave: the request
\* that asked first was answered last, around both rows of the other
C23_Witness ==
    /\ Len(messages) = 4
    /\ RowsIn(4, 1, "user") = {1, 2}
    /\ RowsIn(4, 1, "assistant") = {3, 4}
    /\ fin.pc = "done"
    /\ fin.rows = <<1, 4>>

====
